---- MODULE Spec2Model ----
(***************************************************************************)
(* UserInfoManager (miniprogram/utils/userInfoManager.js): a single-entry  *)
(* cache of the user profile with a fixed 24 h expiry.  The host storage   *)
(* (wx.*StorageSync), the host fetch (wx.getUserProfile) and the clock     *)
(* (Date.now) are the environment.  JavaScript values, JSON.stringify and  *)
(* JSON.parse are modelled on a small universe of values and on strings    *)
(* represented as sequences of JSON tokens.                                *)
(***************************************************************************)
EXTENDS Integers, Sequences, FiniteSets, TLC

VARIABLES
    now,      \* Date.now(), in milliseconds
    ticks,    \* number of clock advances so far
    storage,  \* host storage under cacheKey
    calls,    \* the getUserInfo invocations
    last,     \* the operation performed by the last step, and what it did
    written   \* history: the record setCachedUserInfo stored last, and
              \* whether it is still the stored entry

vars == <<now, ticks, storage, calls, last, written>>

(* ------------------------------ bounds -------------------------------- *)
MaxCalls == 2
MaxTicks == 2

(* ------------------------- program constants -------------------------- *)
CACHE_EXPIRE == 86400000

(* ------------------------- JavaScript values -------------------------- *)
\* A value is [t, n, s, f]: its type, its number, its string, its own
\* properties in insertion order (a sequence of [k, v]).
JSValue(t, n, s, f) == [t |-> t, n |-> n, s |-> s, f |-> f]
Undefined == JSValue("undefined", 0, "", <<>>)
Null == JSValue("null", 0, "", <<>>)
Num(n) == JSValue("num", n, "", <<>>)
Str(s) == JSValue("str", 0, s, <<>>)
Obj(f) == JSValue("obj", 0, "", f)
Prop(k, v) == [k |-> k, v |-> v]

\* Mutant: the test is `cachedInfo !== null`, which undefined passes.
Truthy_notNull(v) == v.t # "null"

\* ToBoolean, as applied by `if (cachedInfo)`.
Truthy(v) ==
    CASE v.t = "undefined" -> FALSE
      [] v.t = "null" -> FALSE
      [] v.t = "num" -> v.n # 0
      [] v.t = "str" -> v.s # ""
      [] OTHER -> TRUE

\* A TypeError is thrown by a property read on undefined or null.
Nullish(v) == v.t \in {"undefined", "null"}

RECURSIVE LookUp(_, _, _)
LookUp(f, k, found) ==
    IF f = <<>> THEN found
    ELSE LookUp(Tail(f), k, IF Head(f).k = k THEN Head(f).v ELSE found)

\* v.k for a non-nullish v: the last own property named k, else undefined.
Get(v, k) == IF v.t = "obj" THEN LookUp(v.f, k, Undefined) ELSE Undefined

\* ToNumber, as applied by the subtraction Date.now() - cache.timestamp.
ToNumber(v) ==
    CASE v.t = "num" -> [nan |-> FALSE, n |-> v.n]
      [] v.t = "null" -> [nan |-> FALSE, n |-> 0]
      [] v.t = "str" /\ v.s = "" -> [nan |-> FALSE, n |-> 0]
      [] OTHER -> [nan |-> TRUE, n |-> 0]

(* ------------------------------- JSON --------------------------------- *)
\* A string is a sequence of tokens [k, n, s].
Tok(k) == [k |-> k, n |-> 0, s |-> ""]
NumTok(n) == [k |-> "num", n |-> n, s |-> ""]
StrTok(s) == [k |-> "str", n |-> 0, s |-> s]

RECURSIVE Stringify(_), StringifyMembers(_, _)
\* JSON.stringify of a value that is not undefined.
Stringify(v) ==
    CASE v.t = "null" -> <<Tok("null")>>
      [] v.t = "num" -> <<NumTok(v.n)>>
      [] v.t = "str" -> <<StrTok(v.s)>>
      [] v.t = "obj" -> <<Tok("{")>> \o StringifyMembers(v.f, TRUE) \o <<Tok("}")>>
      [] OTHER -> <<>>

\* The members of an object; a property whose value is undefined is left out.
StringifyMembers(f, first) ==
    IF f = <<>> THEN <<>>
    ELSE IF Head(f).v.t = "undefined" THEN StringifyMembers(Tail(f), first)
    ELSE (IF first THEN <<>> ELSE <<Tok(",")>>)
         \o <<StrTok(Head(f).k), Tok(":")>>
         \o Stringify(Head(f).v)
         \o StringifyMembers(Tail(f), FALSE)

ParseFail == [ok |-> FALSE, v |-> Undefined, rest |-> <<>>]
ParseOk(v, rest) == [ok |-> TRUE, v |-> v, rest |-> rest]

RECURSIVE ParseValue(_), ParseMembers(_, _)
ParseValue(toks) ==
    IF toks = <<>> THEN ParseFail
    ELSE LET h == Head(toks)
             r == Tail(toks)
         IN CASE h.k = "null" -> ParseOk(Null, r)
              [] h.k = "num" -> ParseOk(Num(h.n), r)
              [] h.k = "str" -> ParseOk(Str(h.s), r)
              [] h.k = "{" ->
                   IF r # <<>> /\ Head(r).k = "}"
                   THEN ParseOk(Obj(<<>>), Tail(r))
                   ELSE ParseMembers(r, <<>>)
              [] OTHER -> ParseFail

ParseMembers(toks, acc) ==
    IF Len(toks) < 3 \/ toks[1].k # "str" \/ toks[2].k # ":" THEN ParseFail
    ELSE LET pv == ParseValue(SubSeq(toks, 3, Len(toks)))
             acc2 == Append(acc, Prop(toks[1].s, pv.v))
         IN IF ~pv.ok \/ pv.rest = <<>> THEN ParseFail
            ELSE IF Head(pv.rest).k = "}" THEN ParseOk(Obj(acc2), Tail(pv.rest))
            ELSE IF Head(pv.rest).k = "," THEN ParseMembers(Tail(pv.rest), acc2)
            ELSE ParseFail

\* JSON.parse: the value, or a SyntaxError.
JSONParse(str) ==
    LET p == ParseValue(str)
    IN IF p.ok /\ p.rest = <<>> THEN [threw |-> FALSE, v |-> p.v]
       ELSE [threw |-> TRUE, v |-> Undefined]

(* --------------------------- host storage ----------------------------- *)
\* The entry under cacheKey: absent, or a string.
Absent == [has |-> FALSE, str |-> <<>>]
Stored(str) == [has |-> TRUE, str |-> str]

\* wx.getStorageSync(key): the stored string, or "" when there is no entry.
GetStorageSync(st) == IF st.has THEN st.str ELSE <<>>

(* --------------------------- the operations --------------------------- *)
\* Mutant: when the remove throws, the catch block overwrites the entry
\* with the empty string.
clearCachedUserInfo_fallbackErase(st, rmThrows) ==
    IF rmThrows THEN Stored(<<>>) ELSE Absent

\* Mutant: the remove names another key, so the entry stays.
clearCachedUserInfo_wrongKey(st, rmThrows) == st

\* clearCachedUserInfo: the storage it leaves; a throwing remove is caught.
clearCachedUserInfo(st, rmThrows) == IF rmThrows THEN st ELSE Absent

\* What one run of getCachedUserInfo did: the return statement it took
\* (path), the value returned, the storage left, and the storage calls made.
ReadResult(path, ret, st, rd, rm) ==
    [path |-> path, ret |-> ret, storage |-> st, rd |-> rd, rm |-> rm]

\* Mutant: the expiry test is <= instead of <.
getCachedUserInfo_inclusive(st, t, rdThrows, rmThrows) ==
    IF rdThrows THEN ReadResult("caught", Null, st, "throw", "none")
    ELSE LET cacheStr == GetStorageSync(st)
             parsed == JSONParse(cacheStr)
             cache == parsed.v
             ts == ToNumber(Get(cache, "timestamp"))
         IN IF cacheStr = <<>> THEN ReadResult("empty", Null, st, "ok", "none")
            ELSE IF parsed.threw \/ Nullish(cache)
                 THEN ReadResult("caught", Null, st, "ok", "none")
            ELSE IF ~ts.nan /\ t - ts.n <= CACHE_EXPIRE
                 THEN ReadResult("fresh", Get(cache, "data"), st, "ok", "none")
            ELSE ReadResult("expired", Null, clearCachedUserInfo(st, rmThrows), "ok",
                            IF rmThrows THEN "throw" ELSE "ok")

\* Mutant: a hit renews the record's timestamp (a sliding expiry).
getCachedUserInfo_sliding(st, t, rdThrows, rmThrows) ==
    IF rdThrows THEN ReadResult("caught", Null, st, "throw", "none")
    ELSE LET cacheStr == GetStorageSync(st)
             parsed == JSONParse(cacheStr)
             cache == parsed.v
             ts == ToNumber(Get(cache, "timestamp"))
             renewed == Obj(<<Prop("data", Get(cache, "data")),
                              Prop("timestamp", Num(t))>>)
         IN IF cacheStr = <<>> THEN ReadResult("empty", Null, st, "ok", "none")
            ELSE IF parsed.threw \/ Nullish(cache)
                 THEN ReadResult("caught", Null, st, "ok", "none")
            ELSE IF ~ts.nan /\ t - ts.n < CACHE_EXPIRE
                 THEN ReadResult("fresh", Get(cache, "data"),
                                 Stored(Stringify(renewed)), "ok", "none")
            ELSE ReadResult("expired", Null, clearCachedUserInfo(st, rmThrows), "ok",
                            IF rmThrows THEN "throw" ELSE "ok")

\* Mutant: the catch block removes the entry it could not parse.
getCachedUserInfo_clearsOnCatch(st, t, rdThrows, rmThrows) ==
    IF rdThrows THEN ReadResult("caught", Null, st, "throw", "none")
    ELSE LET cacheStr == GetStorageSync(st)
             parsed == JSONParse(cacheStr)
             cache == parsed.v
             ts == ToNumber(Get(cache, "timestamp"))
         IN IF cacheStr = <<>> THEN ReadResult("empty", Null, st, "ok", "none")
            ELSE IF parsed.threw \/ Nullish(cache)
                 THEN ReadResult("caught", Null, clearCachedUserInfo(st, rmThrows),
                                 "ok", IF rmThrows THEN "throw" ELSE "ok")
            ELSE IF ~ts.nan /\ t - ts.n < CACHE_EXPIRE
                 THEN ReadResult("fresh", Get(cache, "data"), st, "ok", "none")
            ELSE ReadResult("expired", Null, clearCachedUserInfo(st, rmThrows), "ok",
                            IF rmThrows THEN "throw" ELSE "ok")

\* Mutant: the catch block returns an empty object instead of null.
getCachedUserInfo_catchReturnsObject(st, t, rdThrows, rmThrows) ==
    IF rdThrows THEN ReadResult("caught", Obj(<<>>), st, "throw", "none")
    ELSE LET cacheStr == GetStorageSync(st)
             parsed == JSONParse(cacheStr)
             cache == parsed.v
             ts == ToNumber(Get(cache, "timestamp"))
         IN IF cacheStr = <<>> THEN ReadResult("empty", Null, st, "ok", "none")
            ELSE IF parsed.threw \/ Nullish(cache)
                 THEN ReadResult("caught", Obj(<<>>), st, "ok", "none")
            ELSE IF ~ts.nan /\ t - ts.n < CACHE_EXPIRE
                 THEN ReadResult("fresh", Get(cache, "data"), st, "ok", "none")
            ELSE ReadResult("expired", Null, clearCachedUserInfo(st, rmThrows), "ok",
                            IF rmThrows THEN "throw" ELSE "ok")

getCachedUserInfo(st, t, rdThrows, rmThrows) ==
    IF rdThrows THEN ReadResult("caught", Null, st, "throw", "none")
    ELSE LET cacheStr == GetStorageSync(st)
             parsed == JSONParse(cacheStr)
             cache == parsed.v
             ts == ToNumber(Get(cache, "timestamp"))
         IN IF cacheStr = <<>> THEN ReadResult("empty", Null, st, "ok", "none")
            ELSE IF parsed.threw \/ Nullish(cache)
                 THEN ReadResult("caught", Null, st, "ok", "none")
            ELSE IF ~ts.nan /\ t - ts.n < CACHE_EXPIRE
                 THEN ReadResult("fresh", Get(cache, "data"), st, "ok", "none")
            ELSE ReadResult("expired", Null, clearCachedUserInfo(st, rmThrows), "ok",
                            IF rmThrows THEN "throw" ELSE "ok")

\* Mutant: a write over a stored record keeps that record's timestamp.
setCachedUserInfo_keepsTimestamp(st, t, userInfo, wrThrows) ==
    LET old == JSONParse(st.str)
        kept == IF /\ st.has
                   /\ st.str # <<>>
                   /\ ~old.threw
                   /\ old.v.t = "obj"
                   /\ Get(old.v, "timestamp").t = "num"
                THEN Get(old.v, "timestamp")
                ELSE Num(t)
    IN IF wrThrows THEN st
       ELSE Stored(Stringify(Obj(<<Prop("data", userInfo), Prop("timestamp", kept)>>)))

\* Mutant: the write is skipped when no entry is stored under the key.
setCachedUserInfo_onlyIfPresent(st, t, userInfo, wrThrows) ==
    IF wrThrows \/ ~st.has THEN st
    ELSE Stored(Stringify(Obj(<<Prop("data", userInfo), Prop("timestamp", Num(t))>>)))

\* Mutant: a throwing write is tried again, and succeeds.
setCachedUserInfo_retriesWrite(st, t, userInfo, wrThrows) ==
    Stored(Stringify(Obj(<<Prop("data", userInfo), Prop("timestamp", Num(t))>>)))

\* Mutant: the profile is stored without the {data, timestamp} wrapper.
setCachedUserInfo_rawProfile(st, t, userInfo, wrThrows) ==
    IF wrThrows THEN st ELSE Stored(Stringify(userInfo))

\* Mutant: an existing entry is not overwritten.
setCachedUserInfo_keepExisting(st, t, userInfo, wrThrows) ==
    IF wrThrows \/ st.has THEN st
    ELSE Stored(Stringify(Obj(<<Prop("data", userInfo), Prop("timestamp", Num(t))>>)))

\* Mutant: the record is stored without its data.
setCachedUserInfo_dropsData(st, t, userInfo, wrThrows) ==
    IF wrThrows THEN st
    ELSE Stored(Stringify(Obj(<<Prop("timestamp", Num(t))>>)))

\* setCachedUserInfo: the storage it leaves; a throwing write is caught.
setCachedUserInfo(st, t, userInfo, wrThrows) ==
    IF wrThrows THEN st
    ELSE Stored(Stringify(Obj(<<Prop("data", userInfo), Prop("timestamp", Num(t))>>)))

\* reportError reads error.message and error.stack: a TypeError when error
\* is undefined or null.
reportErrorThrows(error) == Nullish(error)

TypeError == Obj(<<Prop("message", Str("TypeError"))>>)

\* The catch block of getUserInfo: how the call settles.
catchFetchError(error) ==
    IF reportErrorThrows(error)
    THEN [pc |-> "rejected", result |-> TypeError]
    ELSE [pc |-> "resolved", result |-> Null]

(* ------------------------ the environment's inputs -------------------- *)
P1 == Obj(<<Prop("nickName", Str("A"))>>)
P2 == Obj(<<Prop("nickName", Str("B"))>>)

\* What wx.getUserProfile resolves with: nothing, an object without
\* userInfo, an object with a profile.
FetchResults ==
    {Undefined, Obj(<<>>), Obj(<<Prop("userInfo", P1)>>), Obj(<<Prop("userInfo", P2)>>)}

\* What wx.getUserProfile rejects with or throws.
ErrMsg == Obj(<<Prop("errMsg", Str("getUserProfile:fail"))>>)
FetchErrors == {Undefined, ErrMsg}

\* What the call of wx.getUserProfile does: it returns a promise, or throws.
HostCalls ==
    {[kind |-> "pending", err |-> Undefined]}
        \cup {[kind |-> "threw", err |-> e] : e \in FetchErrors}

\* Strings other code may have left under cacheKey: the empty string, one
\* JSON.parse rejects, "null", and an object without a timestamp.
ExternalStrings ==
    { <<>>,
      <<Tok("{")>>,
      <<Tok("null")>>,
      <<Tok("{"), StrTok("data"), Tok(":")>> \o Stringify(P1) \o <<Tok("}")>> }

\* The clock's steps: the shortest, and the one that reaches the expiry.
Deltas == {1, CACHE_EXPIRE - 1}

(* ------------------------------ the state ----------------------------- *)
CallIds == 1 .. MaxCalls

\* A getUserInfo invocation: where it is (idle: not started; awaiting: at
\* line 35; resolved, rejected: its promise settled), its argument, and
\* how many times it has called wx.getUserProfile.
Call(pc, force, fetches) == [pc |-> pc, force |-> force, fetches |-> fetches]

\* What the last step did: the operation, the invocation, the return
\* statement of getCachedUserInfo taken, the value returned or settled
\* with, and what became of the storage read, write, remove and of the
\* host call made in the step ("none": not made).
Last(op, c, path, ret, rd, wr, rm, host) ==
    [op |-> op, c |-> c, path |-> path, ret |-> ret,
     rd |-> rd, wr |-> wr, rm |-> rm, host |-> host]

\* No record written yet, or the written one replaced by other code's
\* string or removed by an explicit clear.
NoWritten == [has |-> FALSE, data |-> Undefined, timestamp |-> 0]

\* The history after a run r of getCachedUserInfo: a successful removal of
\* the expired entry ends the written record (its fields are kept).
WrittenAfterRead(w, r) ==
    IF r.path = "expired" /\ r.rm = "ok" THEN [w EXCEPT !.has = FALSE] ELSE w

Init ==
    /\ now = 0
    /\ ticks = 0
    /\ storage = Absent
    /\ calls = [c \in CallIds |-> Call("idle", FALSE, 0)]
    /\ last = Last("init", 0, "none", Undefined, "none", "none", "none", "none")
    /\ written = NoWritten

(* ------------------------------ actions ------------------------------- *)
\* The outcomes of the storage calls a run of getCachedUserInfo on st at t
\* can meet: the remove is reached only for an expired entry.
ReadFaults(st, t) ==
    {f \in [rd : BOOLEAN, rm : BOOLEAN] :
        f.rm => getCachedUserInfo(st, t, f.rd, FALSE).path = "expired"}

\* Mutant: single flight.  A call that misses while another call is at the
\* await waits for that call's fetch instead of calling the host itself.
GetUserInfo_singleFlight(c, forceRefresh) ==
    /\ calls[c].pc = "idle"
    /\ \A d \in 1 .. (c - 1) : calls[d].pc # "idle"
    /\ \E f \in (IF forceRefresh THEN {[rd |-> FALSE, rm |-> FALSE]}
                 ELSE ReadFaults(storage, now)) :
         LET r == IF forceRefresh
                  THEN ReadResult("none", Undefined, storage, "none", "none")
                  ELSE getCachedUserInfo(storage, now, f.rd, f.rm)
             joins == \E d \in CallIds : calls[d].pc = "awaiting"
         IN IF ~forceRefresh /\ Truthy(r.ret)
            THEN /\ storage' = r.storage
                 /\ calls' = [calls EXCEPT ![c] = Call("resolved", forceRefresh, 0)]
                 /\ last' = Last("getUserInfo", c, r.path, r.ret, r.rd, "none", r.rm, "none")
                 /\ written' = WrittenAfterRead(written, r)
            ELSE \E host \in HostCalls :
                 LET settled == catchFetchError(host.err)
                 IN /\ storage' = r.storage
                    /\ calls' = [calls EXCEPT ![c] =
                          IF joins THEN Call("awaiting", forceRefresh, 0)
                          ELSE IF host.kind = "pending"
                          THEN Call("awaiting", forceRefresh, 1)
                          ELSE Call(settled.pc, forceRefresh, 1)]
                    /\ last' = Last("getUserInfo", c, r.path,
                                    IF joins \/ host.kind = "pending" THEN Undefined
                                    ELSE settled.result,
                                    r.rd, "none", r.rm,
                                    IF joins THEN "none" ELSE host.kind)
                    /\ written' = WrittenAfterRead(written, r)
    /\ UNCHANGED <<now, ticks>>

\* getUserInfo(forceRefresh), up to its return or to the await.  host is
\* what the call of wx.getUserProfile does when it is reached.
GetUserInfo(c, forceRefresh) ==
    /\ calls[c].pc = "idle"
    /\ \A d \in 1 .. (c - 1) : calls[d].pc # "idle"
    /\ \E f \in (IF forceRefresh THEN {[rd |-> FALSE, rm |-> FALSE]}
                 ELSE ReadFaults(storage, now)) :
         LET r == IF forceRefresh
                  THEN ReadResult("none", Undefined, storage, "none", "none")
                  ELSE getCachedUserInfo(storage, now, f.rd, f.rm)
         IN IF ~forceRefresh /\ Truthy(r.ret)
            THEN /\ storage' = r.storage
                 /\ calls' = [calls EXCEPT ![c] = Call("resolved", forceRefresh, 0)]
                 /\ last' = Last("getUserInfo", c, r.path, r.ret, r.rd, "none", r.rm, "none")
                 /\ written' = WrittenAfterRead(written, r)
            ELSE \E host \in HostCalls :
                 LET settled == catchFetchError(host.err)
                 IN /\ storage' = r.storage
                    /\ calls' = [calls EXCEPT ![c] =
                          IF host.kind = "pending"
                          THEN Call("awaiting", forceRefresh, 1)
                          ELSE Call(settled.pc, forceRefresh, 1)]
                    /\ last' = Last("getUserInfo", c, r.path,
                                    IF host.kind = "pending" THEN Undefined
                                    ELSE settled.result,
                                    r.rd, "none", r.rm, host.kind)
                    /\ written' = WrittenAfterRead(written, r)
    /\ UNCHANGED <<now, ticks>>

\* The awaited promise fulfils with res: lines 39-42, or the catch block
\* when res.userInfo throws.
FetchResolve(c) ==
    /\ calls[c].pc = "awaiting"
    /\ \E res \in FetchResults :
         IF Nullish(res)
         THEN LET settled == catchFetchError(TypeError)
              IN /\ storage' = storage
                 /\ calls' = [calls EXCEPT ![c].pc = settled.pc]
                 /\ last' = Last("fetchResolve", c, "none", settled.result,
                                 "none", "none", "none", "none")
                 /\ written' = written
         ELSE \E wrThrows \in BOOLEAN :
              LET userInfo == Get(res, "userInfo")
              IN /\ storage' = setCachedUserInfo(storage, now, userInfo, wrThrows)
                 /\ calls' = [calls EXCEPT ![c].pc = "resolved"]
                 /\ last' = Last("fetchResolve", c, "none", userInfo, "none",
                                 IF wrThrows THEN "throw" ELSE "ok", "none", "none")
                 /\ written' = IF wrThrows THEN written
                                ELSE [has |-> TRUE, data |-> userInfo, timestamp |-> now]
    /\ UNCHANGED <<now, ticks>>

\* The awaited promise rejects with error: the catch block.
FetchReject(c) ==
    /\ calls[c].pc = "awaiting"
    /\ \E error \in FetchErrors :
         LET settled == catchFetchError(error)
         IN /\ calls' = [calls EXCEPT ![c].pc = settled.pc]
            /\ last' = Last("fetchReject", c, "none", settled.result,
                            "none", "none", "none", "none")
    /\ UNCHANGED <<now, ticks, storage, written>>

\* getCachedUserInfo called on its own.
GetCachedUserInfo ==
    /\ \E f \in ReadFaults(storage, now) :
         LET r == getCachedUserInfo(storage, now, f.rd, f.rm)
         IN /\ storage' = r.storage
            /\ last' = Last("getCachedUserInfo", 0, r.path, r.ret,
                            r.rd, "none", r.rm, "none")
            /\ written' = WrittenAfterRead(written, r)
    /\ UNCHANGED <<now, ticks, calls>>

\* clearCachedUserInfo called on its own.
ClearCachedUserInfo ==
    /\ \E rmThrows \in BOOLEAN :
         /\ storage' = clearCachedUserInfo(storage, rmThrows)
         /\ last' = Last("clearCachedUserInfo", 0, "none", Undefined, "none", "none",
                         IF rmThrows THEN "throw" ELSE "ok", "none")
         /\ written' = IF rmThrows THEN written ELSE NoWritten
    /\ UNCHANGED <<now, ticks, calls>>

\* Other code of the mini program writes under cacheKey.
ExternalWrite ==
    /\ \E str \in ExternalStrings : storage' = Stored(str)
    /\ last' = Last("externalWrite", 0, "none", Undefined, "none", "none", "none", "none")
    /\ written' = NoWritten
    /\ UNCHANGED <<now, ticks, calls>>

\* Time passes.
Tick ==
    /\ ticks < MaxTicks
    /\ \E d \in Deltas : now' = now + d
    /\ ticks' = ticks + 1
    /\ last' = Last("tick", 0, "none", Undefined, "none", "none", "none", "none")
    /\ UNCHANGED <<storage, calls, written>>

Next ==
    \/ \E c \in CallIds, forceRefresh \in BOOLEAN : GetUserInfo(c, forceRefresh)
    \/ \E c \in CallIds : FetchResolve(c)
    \/ \E c \in CallIds : FetchReject(c)
    \/ GetCachedUserInfo
    \/ ClearCachedUserInfo
    \/ ExternalWrite
    \/ Tick

Spec == Init /\ [][Next]_vars

\* The host settles every promise of wx.getUserProfile it has handed out:
\* a call suspended at the await (line 35) is eventually resumed, with a
\* result or with an error.
FairSpec ==
    Spec /\ \A c \in CallIds : WF_vars(FetchResolve(c) \/ FetchReject(c))

(* ----------------------- vocabulary of the claims ---------------------- *)
\* The stored entry read as a record {data, timestamp}.
StoredValue(st) == JSONParse(st.str).v
HasRecord(st) ==
    /\ st.has
    /\ st.str # <<>>
    /\ ~JSONParse(st.str).threw
    /\ StoredValue(st).t = "obj"
    /\ Get(StoredValue(st), "timestamp").t = "num"
RecData(st) == Get(StoredValue(st), "data")
RecTimestamp(st) == Get(StoredValue(st), "timestamp").n

\* The last step returned a value from the cache path: getCachedUserInfo
\* took line 63 or returned something else than null, or getUserInfo
\* returned without calling the host.
CacheReturn ==
    \/ last.op = "getCachedUserInfo" /\ (last.path = "fresh" \/ last.ret # Null)
    \/ last.op = "getUserInfo" /\ last.rd # "none" /\ last.host = "none"

(* -------------------------------- C1 ---------------------------------- *)
\* C1: a value returned from the cache path (getCachedUserInfo, or
\* getUserInfo(false) on a hit) is the data of the stored record, and that
\* record has now - timestamp < CACHE_EXPIRE at the read; a record with
\* now - timestamp >= CACHE_EXPIRE is never returned.
C1_StaleNeverReturned ==
    CacheReturn =>
        /\ HasRecord(storage)
        /\ now - RecTimestamp(storage) < CACHE_EXPIRE
        /\ last.ret = RecData(storage)

\* A hit of getUserInfo(false) one millisecond before the expiry.
C1_Witness ==
    /\ last.op = "getUserInfo"
    /\ last.host = "none"
    /\ calls[last.c].pc = "resolved"
    /\ ~calls[last.c].force
    /\ last.ret = P1
    /\ HasRecord(storage)
    /\ now - RecTimestamp(storage) = CACHE_EXPIRE - 1

(* -------------------------------- C2 ---------------------------------- *)
\* C2: the promise returned by getUserInfo never rejects, whatever the
\* collaborators do.
C2_NoErrorCrossesBoundary == \A c \in CallIds : calls[c].pc # "rejected"

(* -------------------------------- C3 ---------------------------------- *)
\* The step is a run of getCachedUserInfo on the record setCachedUserInfo
\* wrote, with no write or removal since, at an age satisfying the test.
ReadsWrittenFresh ==
    /\ last'.op = "getCachedUserInfo"
    /\ written.has
    /\ now - written.timestamp < CACHE_EXPIRE

ReadsWrittenExpired ==
    /\ last'.op = "getCachedUserInfo"
    /\ written.has
    /\ now - written.timestamp >= CACHE_EXPIRE

\* C4 as claimed: every read of a written record at an age >= CACHE_EXPIRE
\* returns null and leaves no entry under the key.
C4_EvictedAlways ==
    [][ReadsWrittenExpired => (last'.ret = Null /\ storage' = Absent)]_vars

\* C4 as amended: such a read returns null in every case, and leaves no
\* entry when neither wx.getStorageSync nor wx.removeStorageSync throws.
C4_EvictedOnExpiry ==
    [][ReadsWrittenExpired =>
          /\ last'.ret = Null
          /\ (last'.rd = "ok" /\ last'.rm # "throw") => storage' = Absent]_vars

\* P1 evicted by a read at an age of exactly CACHE_EXPIRE.
C4_Witness ==
    /\ last.op = "getCachedUserInfo"
    /\ last.path = "expired"
    /\ last.rm = "ok"
    /\ last.ret = Null
    /\ storage = Absent
    /\ ~written.has
    /\ written.data = P1
    /\ now - written.timestamp = CACHE_EXPIRE

(* -------------------------------- C5 ---------------------------------- *)
\* The last step settled invocation last.c with a fetched res.userInfo
\* (last.ret), after the call of setCachedUserInfo.
FetchSucceeded == last.op = "fetchResolve" /\ last.wr # "none"

\* getUserInfo(true) calls the host, once, without a storage read or remove.
ForcedCallsHost ==
    (last.op = "getUserInfo" /\ calls[last.c].force) =>
        /\ last.host # "none"
        /\ calls[last.c].fetches = 1
        /\ last.rd = "none"
        /\ last.rm = "none"

\* The stored record is {data: last.ret, timestamp: now}.
StoredIsFetched ==
    /\ HasRecord(storage)
    /\ RecData(storage) = last.ret
    /\ RecTimestamp(storage) = now

\* C5 as claimed: getUserInfo(true) always calls the host without reading
\* the cache, and when the fetch succeeds with P the call resolves to P
\* and the stored record is {data: P, timestamp: time of the write}.
C5_ForceRefreshAlwaysStores ==
    /\ ForcedCallsHost
    /\ (FetchSucceeded /\ calls[last.c].force) =>
          (calls[last.c].pc = "resolved" /\ StoredIsFetched)

\* C5 as amended: the stored record is the fetched one when
\* wx.setStorageSync does not throw.
C5_ForceRefresh ==
    /\ ForcedCallsHost
    /\ (FetchSucceeded /\ calls[last.c].force) =>
          /\ calls[last.c].pc = "resolved"
          /\ last.wr = "ok" => StoredIsFetched

\* A forced call stores P2 over what an earlier call fetched.
C5_Witness ==
    /\ FetchSucceeded
    /\ last.c = 2
    /\ calls[2].force
    /\ calls[1].pc = "resolved"
    /\ calls[1].fetches = 1
    /\ last.ret = P2
    /\ last.wr = "ok"
    /\ StoredIsFetched
    /\ now > 0

(* -------------------------------- C6 ---------------------------------- *)
\* The step handles a failed fetch: the promise rejected, or
\* wx.getUserProfile threw.
FetchFailedStep ==
    \/ last'.op = "fetchReject"
    \/ last'.op = "getUserInfo" /\ last'.host = "threw"

\* C6: a failed fetch makes the call resolve to null, with no storage
\* write: the entry is as it was when the fetch was issued.
C6_FetchFailureResolvesNull ==
    [][FetchFailedStep =>
          /\ calls'[last'.c].pc = "resolved"
          /\ last'.ret = Null
          /\ last'.wr = "none"
          /\ last'.op = "fetchReject" => storage' = storage]_vars

(* -------------------------------- C7 ---------------------------------- *)
\* The step starts invocation c as getUserInfo(false).
StartsUnforced(c) ==
    /\ calls[c].pc = "idle"
    /\ calls'[c].pc # "idle"
    /\ ~calls'[c].force

FreshRecord == HasRecord(storage) /\ now - RecTimestamp(storage) < CACHE_EXPIRE

\* The step is a hit: it returns the record's data, calls no host and
\* leaves the storage alone.
IsHit(c) ==
    /\ calls'[c].pc = "resolved"
    /\ calls'[c].fetches = 0
    /\ last'.ret = RecData(storage)
    /\ last'.host = "none"
    /\ storage' = storage

\* C7 as claimed: getUserInfo(false) over a record with
\* now - timestamp < CACHE_EXPIRE is always a hit.
C7_FreshAlwaysHits ==
    [][\A c \in CallIds : (StartsUnforced(c) /\ FreshRecord) => IsHit(c)]_vars

\* C7 as amended: it is a hit when the record's data is truthy and
\* wx.getStorageSync does not throw.
C7_CacheHit ==
    [][\A c \in CallIds :
          (StartsUnforced(c) /\ FreshRecord /\ Truthy(RecData(storage))
             /\ last'.rd = "ok") => IsHit(c)]_vars

\* A hit returning P2.
C7_Witness ==
    /\ last.op = "getUserInfo"
    /\ last.rd = "ok"
    /\ last.host = "none"
    /\ calls[last.c].pc = "resolved"
    /\ calls[last.c].fetches = 0
    /\ last.ret = P2
    /\ FreshRecord
    /\ RecData(storage) = P2

(* -------------------------------- C8 ---------------------------------- *)
\* No other invocation is at the await.
NonOverlapped(c) == \A d \in CallIds \ {c} : calls[d].pc # "awaiting"

\* The step settles the unforced, non-overlapped invocation c with a
\* fetched res.userInfo, after the call of setCachedUserInfo.
SettlesFetched(c) ==
    /\ calls[c].pc = "awaiting"
    /\ calls'[c].pc = "resolved"
    /\ ~calls[c].force
    /\ NonOverlapped(c)
    /\ last'.op = "fetchResolve"
    /\ last'.wr # "none"

\* One valid record is stored after the step, holding the fetched profile.
LeavesValidRecord ==
    /\ HasRecord(storage')
    /\ RecData(storage') = last'.ret
    /\ now' - RecTimestamp(storage') < CACHE_EXPIRE
    /\ now' - RecTimestamp(storage') >= 0

\* getUserInfo(false) with no entry stored calls the host once, and no
\* started invocation calls it again.
OneFetchAttempt(c) ==
    /\ (StartsUnforced(c) /\ storage = Absent) =>
          (calls'[c].fetches = 1 /\ last'.host # "none")
    /\ calls[c].pc # "idle" => calls'[c].fetches = calls[c].fetches

\* C8 as claimed: a single getUserInfo(false) with no record stored makes
\* exactly one fetch attempt, and a successful fetch always leaves one
\* valid record holding the fetched profile.
C8_OneFetchAlwaysOneRecord ==
    [][\A c \in CallIds :
          /\ OneFetchAttempt(c)
          /\ SettlesFetched(c) => LeavesValidRecord]_vars

\* C8 as amended: the record is left when wx.setStorageSync does not throw.
C8_OneFetchOneRecord ==
    [][\A c \in CallIds :
          /\ OneFetchAttempt(c)
          /\ (SettlesFetched(c) /\ last'.wr = "ok") => LeavesValidRecord]_vars

\* The only invocation started, unforced, has fetched once and stored P1.
C8_Witness ==
    /\ last.op = "fetchResolve"
    /\ last.c = 1
    /\ last.wr = "ok"
    /\ last.ret = P1
    /\ ~calls[1].force
    /\ calls[1].pc = "resolved"
    /\ calls[1].fetches = 1
    /\ \A d \in CallIds \ {1} : calls[d].pc = "idle"
    /\ HasRecord(storage)
    /\ RecData(storage) = P1
    /\ now - RecTimestamp(storage) < CACHE_EXPIRE

(* -------------------------------- C9 ---------------------------------- *)
\* An entry is stored that does not parse into a record.
Corrupt(st) == st.has /\ ~HasRecord(st)

\* getCachedUserInfo returns the same on st as on no entry.
ReadsLikeAbsent(st) ==
    \A rd, rm \in BOOLEAN :
        getCachedUserInfo(st, now, rd, rm).ret
            = getCachedUserInfo(Absent, now, rd, rm).ret

\* The step starts getUserInfo(false) as on no entry: the host is called,
\* and no record is stored when the step ends (a throwing read leaves the
\* storage alone).
StartsAsMiss(c) ==
    /\ calls'[c].fetches = 1
    /\ last'.host # "none"
    /\ last'.rd = "throw" => storage' = storage
    /\ last'.rd = "ok" => ~HasRecord(storage')

\* What the settling of a fetch leaves does not depend on the entry found:
\* the fetched record when the write succeeds, the entry as it was
\* otherwise.
SettlesAlike ==
    /\ last'.op = "fetchResolve" =>
          IF last'.wr = "ok"
          THEN /\ HasRecord(storage')
               /\ RecData(storage') = last'.ret
               /\ RecTimestamp(storage') = now'
          ELSE storage' = storage
    /\ last'.op = "fetchReject" => storage' = storage

Awaiting == {c \in CallIds : calls[c].pc = "awaiting"}

\* C10: every getUserInfo(false) started while no valid record is stored
\* calls the host itself, however many fetches are pending, and joins the
\* invocations at the await.
C10_NoSingleFlight ==
    [][\A c \in CallIds :
          (StartsUnforced(c) /\ ~FreshRecord) =>
             /\ calls'[c].fetches = 1
             /\ last'.host # "none"
             /\ last'.host = "pending" => Awaiting' = Awaiting \cup {c}]_vars

\* Two unforced invocations at the await at once, no valid record stored.
C10_Witness ==
    /\ Cardinality(Awaiting) >= 2
    /\ \A c \in Awaiting : ~calls[c].force /\ calls[c].fetches = 1
    /\ ~FreshRecord

(* -------------------------------- C11 --------------------------------- *)
\* The step is one of the component's, not a write by other code.
OwnStep == last'.op # "externalWrite"

\* The step is a successful storage write of setCachedUserInfo, which runs
\* after a fulfilled fetch inside getUserInfo.
WritesRecord == last'.op = "fetchResolve" /\ last'.wr = "ok"

\* The step removes the entry through clearCachedUserInfo, called
\* explicitly or for an expiry found by a read, or is a read whose
\* wx.getStorageSync throws.
ClearsOrReadFails ==
    \/ last'.op = "clearCachedUserInfo" /\ last'.rm = "ok"
    \/ /\ last'.op \in {"getCachedUserInfo", "getUserInfo"}
       /\ \/ last'.path = "expired" /\ last'.rm = "ok"
          \/ last'.rd = "throw"

\* C11: the stored record goes from absent to present only by a
\* successful write of setCachedUserInfo after a fetch, and from present to
\* absent only by clearCachedUserInfo (explicit or on expiry at a read) or
\* on a storage-read failure; no other step of an operation changes
\* whether an entry, or a record, is present.
C11_TwoStateMachine ==
    [][OwnStep =>
          /\ (~storage.has /\ storage'.has) => WritesRecord
          /\ (~HasRecord(storage) /\ HasRecord(storage')) => WritesRecord
          /\ (storage.has /\ ~storage'.has) => ClearsOrReadFails
          /\ (HasRecord(storage) /\ ~HasRecord(storage')) => ClearsOrReadFails]_vars

\* A record written after a fetch, then removed by the expiry test of a
\* getUserInfo(false).
C11_Witness ==
    /\ last.op = "getUserInfo"
    /\ last.path = "expired"
    /\ last.rm = "ok"
    /\ storage = Absent
    /\ ~written.has
    /\ written.data = P2

(* -------------------------------- C12 --------------------------------- *)
\* The values res.userInfo takes when the fetch fulfils with an object.
FetchedProfiles == {Get(res, "userInfo") : res \in {r \in FetchResults : ~Nullish(r)}}

\* The step settles invocation c after a fulfilled fetch whose
\* wx.setStorageSync threw.
SettlesWithFailedWrite(c) ==
    /\ calls[c].pc = "awaiting"
    /\ last'.op = "fetchResolve"
    /\ last'.c = c
    /\ last'.wr = "throw"

\* C12: when the fetch succeeds with P and the storage write throws,
\* getUserInfo still resolves to P, not null; the write is not tried again,
\* and the stored content is exactly what it was before the attempt.
C12_WriteFailureAbsorbed ==
    [][\A c \in CallIds :
          SettlesWithFailedWrite(c) =>
             /\ calls'[c].pc = "resolved"
             /\ last'.ret \in FetchedProfiles
             /\ last'.ret # Null
             /\ calls'[c].fetches = 1
             /\ storage' = storage
             /\ written' = written]_vars

\* P1 fetched, the write threw, and the expired record of P2 is still
\* stored.
C12_Witness ==
    /\ last.op = "fetchResolve"
    /\ last.wr = "throw"
    /\ last.ret = P1
    /\ calls[last.c].pc = "resolved"
    /\ HasRecord(storage)
    /\ RecData(storage) = P2
    /\ now - RecTimestamp(storage) >= CACHE_EXPIRE

(* -------------------------------- C13 --------------------------------- *)
\* A record is stored whose age is CACHE_EXPIRE or more.
ExpiredRecord == HasRecord(storage) /\ now - RecTimestamp(storage) >= CACHE_EXPIRE

\* The step is a run of getCachedUserInfo, on its own or inside
\* getUserInfo(false), whose wx.getStorageSync returned the entry.
ReadsEntry ==
    /\ last'.op \in {"getCachedUserInfo", "getUserInfo"}
    /\ last'.rd = "ok"

\* The read did not serve the record: getCachedUserInfo returned null, and
\* getUserInfo went on to the host.
NotServed ==
    /\ last'.op = "getCachedUserInfo" => last'.ret = Null
    /\ last'.op = "getUserInfo" => last'.host # "none"

RunsRead ==
    /\ last'.op \in {"getCachedUserInfo", "getUserInfo"}
    /\ last'.rd # "none"

C14_EveryCallResolves ==
    \A c \in CallIds : (calls[c].pc = "awaiting") ~> (calls[c].pc = "resolved")

\* What the code does give: the call eventually settles, resolved or
\* rejected.
C14_EveryCallSettles ==
    \A c \in CallIds :
        (calls[c].pc = "awaiting") ~> (calls[c].pc \in {"resolved", "rejected"})

\* A call that hits the cache resolves in the step that starts it, and a
\* suspended call leaves the await only when the host settles its fetch.
C14_HitAndHungFetch ==
    [][\A c \in CallIds :
          /\ (calls[c].pc = "idle" /\ calls'[c].pc # "idle" /\ last'.host = "none") =>
                 (calls'[c].pc = "resolved" /\ calls'[c].fetches = 0
                  /\ last'.path = "fresh")
          /\ (calls[c].pc = "awaiting" /\ calls'[c].pc # "awaiting") =>
                 (last'.op \in {"fetchResolve", "fetchReject"} /\ last'.c = c)]_vars

(* -------------------------------- C15 --------------------------------- *)
\* The step is a read: getCachedUserInfo, or the start of a getUserInfo.
ReadStep == last'.op \in {"getCachedUserInfo", "getUserInfo"}

\* C15: a read leaves the stored entry as it is or removes it, so it never
\* changes a record's timestamp or data; a record is put in place only by
\* the write after a successful fetch, stamped with the time of that write;
\* and a record written at time T is not served by a read made at
\* T + CACHE_EXPIRE or later.
C15_FixedExpiration ==
    [][/\ ReadStep => storage' \in {storage, Absent}
       /\ (OwnStep /\ HasRecord(storage') /\ storage' # storage) =>
             (WritesRecord /\ RecTimestamp(storage') = now')
       /\ (ReadStep /\ last'.rd # "none" /\ written.has
           /\ now - written.timestamp >= CACHE_EXPIRE) => NotServed]_vars

\* The record of P1 written by the first call was served to the second
\* call as a hit, and exactly CACHE_EXPIRE after the write a read finds it
\* expired.
C15_Witness ==
    /\ calls[1].pc = "resolved" /\ calls[1].fetches = 1
    /\ calls[2].pc = "resolved" /\ calls[2].fetches = 0 /\ ~calls[2].force
    /\ last.op = "getCachedUserInfo"
    /\ last.path = "expired"
    /\ last.ret = Null
    /\ written.data = P1
    /\ now - written.timestamp = CACHE_EXPIRE

(* -------------------------------- C16 --------------------------------- *)
\* The step settles invocation c with a fetched res.userInfo, after the
\* call of setCachedUserInfo, and every other invocation has made its
\* fetch and resolved before: c is the last to resolve.
ResolvesLast(c) ==
    /\ calls[c].pc = "awaiting"
    /\ last'.op = "fetchResolve"
    /\ last'.c = c
    /\ last'.wr # "none"
    /\ \A d \in CallIds \ {c} : calls[d].pc = "resolved" /\ calls[d].fetches = 1

\* The record stored after the step holds the profile the step fetched,
\* stamped with the time of the step.
StoresLastResolution ==
    /\ HasRecord(storage')
    /\ RecData(storage') = last'.ret
    /\ RecTimestamp(storage') = now'

\* C16 as stated: after the last of the calls has resolved, the stored
\* record holds the profile of that last resolution and the time of it.
C16_LastResolutionAlwaysWins ==
    [][\A c \in CallIds : ResolvesLast(c) => StoresLastResolution]_vars

\* C16: after the last of the calls has resolved, the stored record holds
\* the profile of that last resolution and the time of it when its storage
\* write did not throw; when the write threw, the entry is what the
\* earlier resolutions left.
C16_LastResolutionWins ==
    [][\A c \in CallIds :
          ResolvesLast(c) =>
             /\ last'.wr = "ok" => StoresLastResolution
             /\ last'.wr = "throw" => storage' = storage]_vars

\* The call started first resolves last, after the call started second has
\* fetched and resolved; the record holds its profile P1 and the time of
\* its resolution.
C16_Witness ==
    /\ last.op = "fetchResolve"
    /\ last.c = 1
    /\ last.wr = "ok"
    /\ last.ret = P1
    /\ calls[1].pc = "resolved"
    /\ calls[2].pc = "resolved" /\ calls[2].fetches = 1
    /\ StoredIsFetched
    /\ now = CACHE_EXPIRE

(* -------------------------------- C17 --------------------------------- *)
\* clearCachedUserInfo has just removed the entry while invocation c is
\* suspended at the await, and the step settles c with a fetched
\* res.userInfo, after the call of setCachedUserInfo.  No step lies
\* between the clear and this one, so no getUserInfo was started after the
\* clear.
ResolvesAfterClear(c) ==
    /\ last.op = "clearCachedUserInfo"
    /\ last.rm = "ok"
    /\ calls[c].pc = "awaiting"
    /\ last'.op = "fetchResolve"
    /\ last'.c = c
    /\ last'.wr # "none"

\* The entry was absent and the step stores the fetched record.
StoreBecomesPresent ==
    /\ storage = Absent
    /\ HasRecord(storage')
    /\ RecData(storage') = last'.ret
    /\ RecTimestamp(storage') = now'

\* C17 as stated: a fetch that was in flight when clearCachedUserInfo ran
\* and then succeeds always writes a record, making the store present.
C17_InFlightAlwaysWrites ==
    [][\A c \in CallIds : ResolvesAfterClear(c) => StoreBecomesPresent]_vars

\* C17: a fetch that was in flight when clearCachedUserInfo ran and then
\* succeeds is not cancelled: the call resolves to the fetched profile and
\* attempts the write; when the write does not throw the store becomes
\* present again, with no getUserInfo started after the clear; when the
\* write throws the store stays absent.
C17_InFlightNotCancelled ==
    [][\A c \in CallIds :
          ResolvesAfterClear(c) =>
             /\ calls'[c].pc = "resolved"
             /\ \A d \in CallIds \ {c} : calls'[d] = calls[d]
             /\ last'.wr = "ok" => StoreBecomesPresent
             /\ last'.wr = "throw" => storage' = Absent]_vars

\* The first call has fetched and resolved, and clearCachedUserInfo has
\* just removed the entry while the second call is suspended at the await.
C17_Witness ==
    /\ last.op = "clearCachedUserInfo"
    /\ last.rm = "ok"
    /\ storage = Absent
    /\ written = NoWritten
    /\ calls[1].pc = "resolved" /\ calls[1].fetches = 1
    /\ calls[2].pc = "awaiting" /\ calls[2].fetches = 1

(* -------------------------------- C18 --------------------------------- *)
\* The empty values of the claim: no data at all, null, 0 and "".
EmptyData(v) ==
    \/ v.t \in {"undefined", "null"}
    \/ v.t = "num" /\ v.n = 0
    \/ v.t = "str" /\ v.s = ""

\* A record within CACHE_EXPIRE is stored whose data is empty.
FreshFalsyRecord == FreshRecord /\ EmptyData(RecData(storage))

\* C18: getUserInfo(false) over a record within CACHE_EXPIRE whose data is
\* empty is a miss: it calls the host, every time, and the read leaves the
\* record stored as it is.
C18_HitNeedsTruthyValue ==
    [][\A c \in CallIds :
          (StartsUnforced(c) /\ FreshFalsyRecord) =>
             /\ calls'[c].fetches = 1
             /\ last'.host # "none"
             /\ last'.rm = "none"
             /\ storage' = storage]_vars

\* The first call fetched a result with no userInfo field and cached it;
\* the second call read that record within CACHE_EXPIRE, got the falsy
\* data from line 63, and is at the await.
C18_Witness ==
    /\ last.op = "getUserInfo"
    /\ last.c = 2
    /\ last.path = "fresh"
    /\ last.ret = Undefined
    /\ last.host = "pending"
    /\ calls[1].pc = "resolved" /\ calls[1].fetches = 1
    /\ calls[2].pc = "awaiting" /\ ~calls[2].force
    /\ written.has
    /\ written.data = Undefined
    /\ FreshRecord

(* -------------------------------- C19 --------------------------------- *)
\* An entry is stored that getCachedUserInfo cannot parse: JSON.parse
\* throws on it, or yields null, whose timestamp cannot be read.
Unparseable(st) ==
    /\ st.has
    /\ st.str # <<>>
    /\ JSONParse(st.str).threw \/ Nullish(JSONParse(st.str).v)

\* The step is a run of getCachedUserInfo that ended in its catch block:
\* wx.getStorageSync threw, or the string could not be parsed.
ReadFails ==
    /\ last'.op \in {"getCachedUserInfo", "getUserInfo"}
    /\ last'.path = "caught"

\* The step is an explicit clearCachedUserInfo whose remove succeeded.
ClearsExplicitly == last'.op = "clearCachedUserInfo" /\ last'.rm = "ok"

\* C19: a read that ends in a storage-read or parse failure returns null
\* and leaves the entry as it is; an unparseable entry makes every
\* getUserInfo(false) call the host, and no step of the component changes
\* it except the successful write after a fetch and an explicit
\* clearCachedUserInfo.
C19_FailedReadKeepsEntry ==
    [][/\ ReadFails =>
             /\ storage' = storage
             /\ last'.rm = "none"
             /\ last'.op = "getCachedUserInfo" => last'.ret = Null
       /\ (Unparseable(storage) /\ ReadStep /\ last'.rd = "ok") => ReadFails
       /\ \A c \in CallIds :
             (StartsUnforced(c) /\ Unparseable(storage)) =>
                 (calls'[c].fetches = 1 /\ last'.host # "none")
       /\ (OwnStep /\ Unparseable(storage) /\ storage' # storage) =>
             (WritesRecord \/ ClearsExplicitly)]_vars

\* getCachedUserInfo has failed to parse a string JSON.parse rejects and
\* returned null, and the string is still stored; a getUserInfo(false) is
\* at the await.
C19_Witness ==
    /\ last.op = "getCachedUserInfo"
    /\ last.path = "caught"
    /\ last.rd = "ok"
    /\ last.ret = Null
    /\ storage = Stored(<<Tok("{")>>)
    /\ calls[1].pc = "awaiting" /\ ~calls[1].force
    /\ calls[2].pc = "idle"

====
